---- MODULE Spec2Model ----
(***************************************************************************)
(* Model of build.rs of libversion-sys: the Toolchain Locator              *)
(* (detect_android_ndk), the Native Library Builder and the Interface      *)
(* Generator (main).  One run of the build script is one behaviour.        *)
(***************************************************************************)
EXTENDS Integers, Sequences, FiniteSets, TLC

(***************************************************************************)
(* Bounds of the model.                                                    *)
(***************************************************************************)
\* number of leaf directories a filesystem layout is built from
MaxLeafDirs == 2
\* number of symbols a header declares
MaxSyms == 2

(***************************************************************************)
(* Paths.  A path string is a sequence of tokens, "/" or a name; a         *)
(* filesystem node is the sequence of the names from the root (<<>> is     *)
(* the root directory).                                                    *)
(***************************************************************************)
Sep == "/"

Cwd == <<"work">>

Comps(raw) == SelectSeq(raw, LAMBDA t : t # Sep)

\* the node a path string names: absolute from the root, relative from Cwd
Resolve(raw) == IF raw # <<>> /\ raw[1] = Sep THEN Comps(raw) ELSE Cwd \o Comps(raw)

RECURSIVE ToRaw(_)
\* the path string of a canonical absolute path
ToRaw(node) ==
  IF node = <<>> THEN <<Sep>>
  ELSE IF Len(node) = 1 THEN <<Sep, node[1]>>
  ELSE ToRaw(SubSeq(node, 1, Len(node) - 1)) \o <<Sep, node[Len(node)]>>

None == [some |-> FALSE]

Some(v) == [some |-> TRUE, val |-> v]

\* Path::parent of a canonical absolute path
Parent(node) == IF node = <<>> THEN None ELSE Some(SubSeq(node, 1, Len(node) - 1))

\* Path::file_name of a canonical absolute path
FileName(node) == IF node = <<>> THEN None ELSE Some(node[Len(node)])

Prefixes(node) == {SubSeq(node, 1, k) : k \in 0..Len(node)}

(***************************************************************************)
(* The filesystems and environments a run starts in.                       *)
(***************************************************************************)
LeafDirs ==
  { <<"ndk", "toolchains", "llvm", "bin">>,
    <<"toolchains", "llvm", "bin">>,
    <<"ndk", "toolchains", "gcc", "bin">>,
    <<"ndk", "toolchains", "llvm", "toolchains", "bin">>,
    <<"ndk", "toolchains", "llvm", "toolchains", "llvm">>,
    <<"usr", "bin">>,
    <<"opt", "sdk">> }

Layouts == {S \in SUBSET LeafDirs : Cardinality(S) <= MaxLeafDirs}

\* the root and every directory on the way to a leaf
DirsOf(S) == {<<>>} \cup UNION {Prefixes(d) : d \in S}

\* a compiler binary named clang sits in every bin directory
FilesOf(S) == {d \o <<"clang">> : d \in {e \in S : e[Len(e)] = "bin"}}

\* /usr/bin/cc is a symbolic link
LinkPath == <<"usr", "bin", "cc">>

Unset == [kind |-> "unset"]

NotUnicode == [kind |-> "notunicode"]

Str(raw) == [kind |-> "str", val |-> raw]

EnvValues ==
  { Unset, NotUnicode,
    Str(<<Sep, "ndk">>),
    Str(<<Sep, "opt", Sep, "sdk", Sep>>),
    Str(<<Sep, "usr", Sep, "bin", Sep, "clang">>) }

TargetValues == { Unset, Str("android"), Str("linux") }

\* what cc::Build::try_get_compiler can answer: an error, a bare program
\* name, or the path of a compiler
CompilerAnswers ==
  {None, Some(<<"clang">>), Some(ToRaw(LinkPath))}
    \cup {Some(ToRaw(d \o <<"clang">>)) : d \in LeafDirs \ {<<"opt", "sdk">>}}

\* directories the external build can answer with
DstDirs == { <<"target", "out">>, <<"tmp", "o">> }

\* OUT_DIR, which cargo sets for every build script
OutDir == <<"target", "out">>

VARIABLES
  env,          \* the NDK variables of the process environment
  target_env,   \* CARGO_CFG_TARGET_OS in the process environment
  fsDirs,       \* directories of the filesystem
  fsFiles,      \* regular files of the filesystem
  fsLink,       \* target of the symbolic link LinkPath
  pc,           \* position of main / detect_android_ndk
  target_os,    \* main: target_os
  cmake_cfg,    \* main: cmake_cfg
  var_i,        \* detect_android_ndk: index in the variable list
  compiler,     \* detect_android_ndk: answer of try_get_compiler
  cc_path,      \* detect_android_ndk: cc_path
  dir,          \* detect_android_ndk: dir
  ndk_root,     \* result of detect_android_ndk
  built,        \* configurations the external build was invoked with
  dst,          \* main: dst
  archiveAt,    \* directory the external build left the archive in
  stdout,       \* lines printed for cargo
  header,       \* symbols wrapper.h declares
  bindings,     \* main: bindings
  outFile       \* OUT_DIR/bindings.rs

vars == <<env, target_env, fsDirs, fsFiles, fsLink, pc, target_os, cmake_cfg,
          var_i, compiler, cc_path, dir, ndk_root, built, dst, archiveAt,
          stdout, header, bindings, outFile>>

world == <<env, target_env, fsDirs, fsFiles, fsLink>>

locator == <<var_i, compiler, cc_path, dir, ndk_root>>

builder == <<built, dst, archiveAt, stdout>>

generator == <<header, bindings, outFile>>

(***************************************************************************)
(* Header symbols and allowlist patterns.  A name and a pattern are        *)
(* sequences of characters.                                                *)
(***************************************************************************)
N_version_compare == <<"v","e","r","s","i","o","n","_","c","o","m","p","a","r","e">>

N_VERSIONFLAG_ == <<"V","E","R","S","I","O","N","F","L","A","G","_">>

\* .allowlist_function("version_compare.*")
FunctionPattern == N_version_compare \o <<".", "*">>

\* .allowlist_var("VERSIONFLAG_.*")
VarPattern == N_VERSIONFLAG_ \o <<".", "*">>

Names ==
  { N_version_compare \o <<"2">>,
    N_version_compare \o <<"4">>,
    N_version_compare,
    <<"x">> \o N_version_compare,
    <<"v","e","r","s","i","o","n","_","c","o","m","p","a","r">>,
    <<"f","r","e","e">>,
    N_VERSIONFLAG_ \o <<"P">>,
    N_VERSIONFLAG_ \o <<"A","N","Y">>,
    N_VERSIONFLAG_,
    <<"M","Y","_">> \o N_VERSIONFLAG_ \o <<"P">>,
    <<"V","E","R","S","I","O","N","F","L","A","G">>,
    <<"O","T","H","E","R","_","C">> }

Function(n) == [kind |-> "function", name |-> n]

\* a constant of the header: a variable or macro, or an enumerator
Constant(n, e) == [kind |-> "constant", name |-> n, enumerator |-> e]

Symbols == {Function(n) : n \in Names} \cup {Constant(n, e) : n \in Names, e \in BOOLEAN}

RECURSIVE SubsetsUpTo(_, _)
SubsetsUpTo(S, k) ==
  IF k = 0 THEN {{}}
  ELSE LET smaller == SubsetsUpTo(S, k - 1) IN smaller \cup {H \cup {x} : H \in smaller, x \in S}

Headers == SubsetsUpTo(Symbols, MaxSyms)

\* the declarations of libversion that wrapper.h includes
LibversionHeader ==
  { Function(N_version_compare \o <<"2">>),
    Function(N_version_compare \o <<"4">>),
    Constant(N_VERSIONFLAG_ \o <<"P">>, TRUE),
    Constant(N_VERSIONFLAG_ \o <<"A","N","Y">>, TRUE) }

CharMatch(c, x) == c = "." \/ c = x

RECURSIVE RegexMatch(_, _)
\* whether the whole of s matches the pattern p (literals, "." and "x*")
RegexMatch(p, s) ==
  IF p = <<>> THEN s = <<>>
  ELSE IF Len(p) >= 2 /\ p[2] = "*"
    THEN \/ RegexMatch(SubSeq(p, 3, Len(p)), s)
         \/ s # <<>> /\ CharMatch(p[1], s[1]) /\ RegexMatch(p, Tail(s))
  ELSE s # <<>> /\ CharMatch(p[1], s[1]) /\ RegexMatch(Tail(p), Tail(s))

\* .default_enum_style(bindgen::EnumVariation::Consts)
EnumStyle == "Consts"

\* the declaration generated for an allowlisted symbol
Render(sym) ==
  IF sym.kind = "function" THEN [form |-> "fn", name |-> sym.name]
  ELSE IF sym.enumerator /\ EnumStyle # "Consts"
    THEN [form |-> "enum_variant", name |-> sym.name]
  ELSE [form |-> "const", name |-> sym.name]

\* one pattern set for every kind of symbol
AllowlistedAnyKind(sym) ==
  \/ RegexMatch(FunctionPattern, sym.name)
  \/ RegexMatch(VarPattern, sym.name)

Allowlisted(sym) ==
  \/ sym.kind = "function" /\ RegexMatch(FunctionPattern, sym.name)
  \/ sym.kind = "constant" /\ RegexMatch(VarPattern, sym.name)

GenerateBindings(h) == {Render(sym) : sym \in {x \in h : Allowlisted(x)}}

(***************************************************************************)
(* detect_android_ndk                                                      *)
(***************************************************************************)
\* the variables in another order
NdkVarsReordered == <<"ANDROID_NDK", "ANDROID_NDK_HOME", "ANDROID_NDK_ROOT">>

NdkVars == <<"ANDROID_NDK_ROOT", "ANDROID_NDK_HOME", "ANDROID_NDK">>

\* env::var(name) as an Option: an unset or non-Unicode value is an Err
EnvVar(e) == IF e.kind = "str" THEN Some(e.val) ELSE None

\* a test that the value is non-empty only
IsDirNonEmpty(raw) == raw # <<>>

\* Path::is_dir
IsDir(raw) == raw # <<>> /\ Resolve(raw) \in fsDirs

\* Path::canonicalize: the node itself, the link's target for the link
Canonicalize(raw) ==
  LET node == Resolve(raw) IN
  IF raw = <<>> THEN None
  ELSE IF node = LinkPath /\ fsLink.some
    THEN (IF fsLink.val \in fsFiles THEN fsLink ELSE None)
  ELSE IF node \in fsFiles \cup fsDirs THEN Some(node)
  ELSE None

\* the test of the walk without the llvm child
WalkMatchNameOnly(d) == FileName(d) = Some("toolchains")

\* the test of the walk, on a canonical directory
WalkMatch(d) ==
  /\ FileName(d) = Some("toolchains")
  /\ IsDir(ToRaw(d) \o <<Sep, "llvm">>)

\* the matched directory itself
WalkReturnSelf(d) == Some(ToRaw(d))

\* the grandparent of the matched directory
WalkReturnGrandparent(d) ==
  LET p == Parent(d)
      g == IF p.some THEN Parent(p.val) ELSE None
  IN  IF g.some THEN Some(ToRaw(g.val)) ELSE None

\* what the walk returns on a match
WalkReturn(d) ==
  LET p == Parent(d) IN IF p.some THEN Some(ToRaw(p.val)) ELSE None

Located(r) == /\ ndk_root' = r
              /\ pc' = "located"

CheckEnvVar ==
  /\ pc = "env"
  /\ LET v == EnvVar(env[NdkVars[var_i]]) IN
       IF v.some /\ IsDir(v.val)
         THEN Located(v) /\ UNCHANGED var_i
       ELSE IF var_i < Len(NdkVars)
         THEN var_i' = var_i + 1 /\ UNCHANGED <<pc, ndk_root>>
       ELSE pc' = "resolve" /\ UNCHANGED <<var_i, ndk_root>>
  /\ UNCHANGED <<world, target_os, cmake_cfg, compiler, cc_path, dir, builder, generator>>

GetCompiler ==
  /\ pc = "resolve"
  /\ \E a \in CompilerAnswers :
       /\ compiler' = a
       /\ LET c == IF a.some THEN Canonicalize(a.val) ELSE None
              p == IF c.some THEN Parent(c.val) ELSE None
          IN  /\ cc_path' = c
              /\ IF p.some
                   THEN dir' = p.val /\ pc' = "walk" /\ UNCHANGED ndk_root
                   ELSE Located(None) /\ UNCHANGED dir
  /\ UNCHANGED <<world, target_os, cmake_cfg, var_i, builder, generator>>

WalkStep ==
  /\ pc = "walk"
  /\ IF WalkMatch(dir)
       THEN Located(WalkReturn(dir)) /\ UNCHANGED dir
     ELSE IF Parent(dir).some
       THEN dir' = Parent(dir).val /\ UNCHANGED <<pc, ndk_root>>
     ELSE Located(None) /\ UNCHANGED dir
  /\ UNCHANGED <<world, target_os, cmake_cfg, var_i, compiler, cc_path, builder, generator>>

(***************************************************************************)
(* main                                                                    *)
(***************************************************************************)
\* env::var("CARGO_CFG_TARGET_OS").unwrap_or_default()
UnwrapOrDefault(e) == IF e.kind = "str" THEN e.val ELSE ""

\* any target that is set
IsAndroidAnySet == target_os # ""

IsAndroid == target_os = "android"

Configure ==
  /\ pc = "start"
  /\ target_os' = UnwrapOrDefault(target_env)
  /\ cmake_cfg' = Some([path |-> "libversion",
                        build_target |-> "libversion_static",
                        defines |-> <<>>])
  /\ pc' = "configured"
  /\ UNCHANGED <<world, locator, builder, generator>>

EnterLocator ==
  /\ pc = "configured"
  /\ IsAndroid
  /\ pc' = "env"
  /\ UNCHANGED <<world, target_os, cmake_cfg, locator, builder, generator>>

SkipLocator ==
  /\ pc = "configured"
  /\ ~IsAndroid
  /\ pc' = "ready"
  /\ UNCHANGED <<world, target_os, cmake_cfg, locator, builder, generator>>

Define(cfg, k, v) == [cfg EXCEPT !.defines = Append(@, <<k, v>>)]

InjectOverride ==
  /\ pc = "located"
  /\ cmake_cfg' = IF ndk_root.some
                    THEN Some(Define(cmake_cfg.val, "CMAKE_ANDROID_NDK", ndk_root.val))
                    ELSE cmake_cfg
  /\ pc' = "ready"
  /\ UNCHANGED <<world, target_os, locator, builder, generator>>

\* the install layout instead of the build tree
BuildDirLib(d) == d \o <<"lib">>

\* dst.join("build").join("libversion")
BuildDir(d) == d \o <<"build", "libversion">>

\* where a successful external build can leave the static archive
ArchivePlaces(d) == {d \o <<"build", "libversion">>, d \o <<"build", "libversion", "Release">>}

\* a failed external build is tried again
AfterBuildFailureRetry == "ready"

\* a failed external build panics inside cmake_cfg.build()
AfterBuildFailure == "aborted"

CmakeBuild ==
  /\ pc = "ready"
  /\ built' = Append(built, cmake_cfg.val)
  /\ \/ /\ pc' = AfterBuildFailure
        /\ UNCHANGED <<dst, archiveAt>>
     \/ /\ \E d \in DstDirs :
             /\ dst' = Some(d)
             /\ \E a \in ArchivePlaces(d) : archiveAt' = Some(a)
        /\ pc' = "built"
  /\ UNCHANGED <<world, target_os, cmake_cfg, locator, stdout, generator>>

EmitSearchPath ==
  /\ pc = "built"
  /\ stdout' = Append(stdout, [key |-> "rustc-link-search", kind |-> "native",
                               val |-> BuildDir(dst.val)])
  /\ pc' = "search_emitted"
  /\ UNCHANGED <<world, target_os, cmake_cfg, locator, built, dst, archiveAt, generator>>

EmitLinkLib ==
  /\ pc = "search_emitted"
  /\ stdout' = Append(stdout, [key |-> "rustc-link-lib", kind |-> "static",
                               val |-> "version"])
  /\ pc' = "link_emitted"
  /\ UNCHANGED <<world, target_os, cmake_cfg, locator, built, dst, archiveAt, generator>>

\* a failed generate() panics in expect("Unable to generate bindings")
AfterGenerateFailure == "aborted"

Generate ==
  /\ pc = "link_emitted"
  /\ \/ /\ bindings' = Some(GenerateBindings(header))
        /\ stdout' = Append(stdout, [key |-> "rerun-if-changed", kind |-> "file",
                                     val |-> "wrapper.h"])
        /\ pc' = "generated"
     \/ /\ pc' = AfterGenerateFailure
        /\ UNCHANGED <<bindings, stdout>>
  /\ UNCHANGED <<world, target_os, cmake_cfg, locator, built, dst, archiveAt, header, outFile>>

WriteBindings ==
  /\ pc = "generated"
  /\ \/ /\ outFile' = Some([path |-> OutDir \o <<"bindings.rs">>, content |-> bindings.val])
        /\ pc' = "done"
     \/ /\ pc' = "aborted"
        /\ UNCHANGED outFile
  /\ UNCHANGED <<world, target_os, cmake_cfg, locator, builder, header, bindings>>

(***************************************************************************)
(* Specifications                                                          *)
(***************************************************************************)
InitRun ==
  /\ pc = "start"
  /\ target_os = ""
  /\ cmake_cfg = None
  /\ var_i = 1
  /\ compiler = None
  /\ cc_path = None
  /\ dir = <<>>
  /\ ndk_root = None
  /\ built = <<>>
  /\ dst = None
  /\ archiveAt = None
  /\ stdout = <<>>
  /\ bindings = None
  /\ outFile = None

InitWorld(layouts, envValues) ==
  /\ \E S \in layouts :
       /\ fsDirs = DirsOf(S)
       /\ fsFiles = FilesOf(S)
       /\ fsLink \in (IF <<"usr", "bin">> \in S THEN {Some(f) : f \in FilesOf(S)} ELSE {}) \cup {None}
  /\ env \in [{NdkVars[i] : i \in 1..Len(NdkVars)} -> envValues]
  /\ target_env \in TargetValues

Init ==
  /\ InitWorld(Layouts, EnvValues)
  /\ header = LibversionHeader
  /\ InitRun

Next ==
  \/ Configure
  \/ EnterLocator
  \/ SkipLocator
  \/ CheckEnvVar
  \/ GetCompiler
  \/ WalkStep
  \/ InjectOverride
  \/ CmakeBuild
  \/ EmitSearchPath
  \/ EmitLinkLib
  \/ Generate
  \/ WriteBindings

Spec == Init /\ [][Next]_vars

\* the runs for a target other than android, over every header
InitGen ==
  /\ InitWorld({{<<"usr", "bin">>}}, {Unset})
  /\ target_env # Str("android")
  /\ header \in Headers
  /\ InitRun

NextGen ==
  \/ Configure
  \/ SkipLocator
  \/ CmakeBuild
  \/ EmitSearchPath
  \/ EmitLinkLib
  \/ Generate
  \/ WriteBindings

SpecGen == InitGen /\ [][NextGen]_vars

(***************************************************************************)
(* Vocabulary of the properties                                            *)
(***************************************************************************)
Root == "ANDROID_NDK_ROOT"

Home == "ANDROID_NDK_HOME"

Ndk == "ANDROID_NDK"

PriorityList == <<Root, Home, Ndk>>

\* the variable is set to the path of an existing directory
ValidDir(name) ==
  /\ env[name].kind = "str"
  /\ env[name].val # <<>>
  /\ Resolve(env[name].val) \in fsDirs

NoValidDir == \A i \in 1..3 : ~ValidDir(PriorityList[i])

AllUnset == \A i \in 1..3 : env[PriorityList[i]] = Unset

\* the positions inside detect_android_ndk
InLocator == {"env", "resolve", "walk"}

\* detect_android_ndk was called and has returned
Returned ==
  /\ target_env = Str("android")
  /\ pc \notin {"start", "configured", "env", "resolve", "walk"}

\* the ancestors of the canonical compiler path that are named toolchains
\* and have an llvm subdirectory
MatchingAncestors ==
  IF cc_path.some
    THEN {a \in Prefixes(cc_path.val) \ {cc_path.val, <<>>} :
            a[Len(a)] = "toolchains" /\ (a \o <<"llvm">>) \in fsDirs}
    ELSE {}

Nearest == CHOOSE a \in MatchingAncestors : \A b \in MatchingAncestors : Len(b) <= Len(a)

\* the directory named by a path string has a toolchains/llvm subdirectory
HasNdkStructure(raw) == (Resolve(raw) \o <<"toolchains", "llvm">>) \in fsDirs

Override(v) == << <<"CMAKE_ANDROID_NDK", v>> >>

BaseConfig == [path |-> "libversion", build_target |-> "libversion_static", defines |-> <<>>]

Count(key) == Cardinality({i \in 1..Len(stdout) : stdout[i].key = key})

SearchDirective(d) == [key |-> "rustc-link-search", kind |-> "native", val |-> d \o <<"build", "libversion">>]

LinkDirective == [key |-> "rustc-link-lib", kind |-> "static", val |-> "version"]

HasPrefix(pre, n) == Len(n) >= Len(pre) /\ SubSeq(n, 1, Len(pre)) = pre

(***************************************************************************)
(* C1.  The override CMAKE_ANDROID_NDK is in the build configuration only  *)
(* when CARGO_CFG_TARGET_OS is "android"; for every other value, unset     *)
(* included, the configuration the external build is invoked with is the   *)
(* same base configuration whatever the NDK variables and the compiler.    *)
(***************************************************************************)
C1_OverrideOnlyForAndroid ==
  target_env # Str("android") =>
    /\ cmake_cfg.some => cmake_cfg.val = BaseConfig
    /\ \A i \in 1..Len(built) : built[i] = BaseConfig
    /\ ndk_root = None

C1_Witness ==
  /\ target_env = Str("linux")
  /\ ValidDir(Root)
  /\ built = <<BaseConfig>>

(***************************************************************************)
(* C2.  detect_android_ndk returns the value of the first of               *)
(* ANDROID_NDK_ROOT, ANDROID_NDK_HOME, ANDROID_NDK that names an existing  *)
(* directory; a variable that is set to something else is skipped: the     *)
(* later variables and then the compiler path are still tried, and the     *)
(* run does not abort in the Locator.                                      *)
(***************************************************************************)
C2_FirstValidVariableWins ==
  /\ Returned =>
       /\ \A i \in 1..3 :
            (ValidDir(PriorityList[i]) /\ \A j \in 1..(i - 1) : ~ValidDir(PriorityList[j]))
              => ndk_root = Some(env[PriorityList[i]].val)
       /\ NoValidDir => /\ compiler \in CompilerAnswers
                        /\ ndk_root.some <=> MatchingAncestors # {}
  /\ (pc = "aborted" /\ target_env = Str("android")) => built # <<>>

C2_Witness ==
  /\ pc = "located"
  /\ env[Root].kind = "str" /\ ~ValidDir(Root)
  /\ ValidDir(Home) /\ ValidDir(Ndk)
  /\ env[Home] # env[Ndk]
  /\ ndk_root = Some(env[Home].val)

(***************************************************************************)
(* C3 as stated.  With no override variable set and a toolchains ancestor  *)
(* that has an llvm subdirectory, the Locator returns the grandparent of   *)
(* a toolchains directory, two levels above it.                            *)
(***************************************************************************)
C3_ReturnsGrandparent ==
  (Returned /\ AllUnset /\ MatchingAncestors # {}) =>
    \E a \in MatchingAncestors :
      /\ Len(a) >= 2
      /\ ndk_root = Some(ToRaw(SubSeq(a, 1, Len(a) - 2)))

(***************************************************************************)
(* C3 as amended.  With no override variable set and a toolchains ancestor *)
(* that has an llvm subdirectory, the Locator returns the parent of the    *)
(* nearest such toolchains directory, one level above it.                  *)
(***************************************************************************)
C3_ReturnsParent ==
  (Returned /\ AllUnset /\ MatchingAncestors # {}) =>
    ndk_root = Some(ToRaw(SubSeq(Nearest, 1, Len(Nearest) - 1)))

C3_Witness ==
  /\ pc = "located"
  /\ AllUnset
  /\ Cardinality(MatchingAncestors) = 2
  /\ ndk_root = Some(<<Sep, "ndk", Sep, "toolchains", Sep, "llvm">>)

(***************************************************************************)
(* C4.  When no override variable names an existing directory and the      *)
(* compiler is not resolved, not canonicalized, or has no toolchains       *)
(* ancestor with an llvm subdirectory, the walk ends at the root, the      *)
(* Locator returns None without aborting, and the build is invoked with    *)
(* no override.                                                            *)
(***************************************************************************)
C4_NotFoundState ==
  (Returned /\ NoValidDir /\ MatchingAncestors = {}) =>
    /\ ndk_root = None
    /\ (pc = "located" /\ cc_path.some) => dir = <<>>
    /\ cmake_cfg.val = BaseConfig
    /\ \A i \in 1..Len(built) : built[i] = BaseConfig

C4_NotFoundIsNotFatal ==
  /\ []C4_NotFoundState
  /\ [][(pc \in InLocator) => (pc' \in InLocator \cup {"located"})]_vars
  /\ [][(pc = "located" /\ ndk_root = None) => (pc' = "ready" /\ cmake_cfg' = cmake_cfg)]_vars

C4_Witness ==
  /\ target_env = Str("android")
  /\ env[Root].kind = "str"
  /\ NoValidDir
  /\ cc_path.some
  /\ \E a \in Prefixes(cc_path.val) : a # <<>> /\ a[Len(a)] = "toolchains"
  /\ MatchingAncestors = {}
  /\ built = <<BaseConfig>>
  /\ pc = "built"

(***************************************************************************)
(* C5.  With target android and ANDROID_NDK_ROOT naming an existing        *)
(* directory, every invocation of the external build has the override      *)
(* CMAKE_ANDROID_NDK with exactly the variable's value, whatever the other *)
(* variables and the compiler are.                                         *)
(***************************************************************************)
C5_RootOverrideBeforeBuild ==
  (target_env = Str("android") /\ ValidDir(Root)) =>
    /\ \A i \in 1..Len(built) : built[i].defines = Override(env[Root].val)
    /\ pc \in {"ready", "built"} => cmake_cfg.val.defines = Override(env[Root].val)
    /\ compiler = None

C5_Witness ==
  /\ target_env = Str("android")
  /\ env[Root] = Str(<<Sep, "opt", Sep, "sdk", Sep>>)
  /\ ValidDir(Root)
  /\ ValidDir(Ndk) /\ env[Ndk] # env[Root]
  /\ Len(built) = 1
  /\ built[1].defines = Override(<<Sep, "opt", Sep, "sdk", Sep>>)

(***************************************************************************)
(* C6.  With no override variable set and a target other than android, a   *)
(* run whose external build succeeded emits exactly one static link        *)
(* directive, for the archive version, and exactly one native search path  *)
(* directive, for build/libversion under the directory the build returned; *)
(* none is emitted before the build completed and none twice.              *)
(***************************************************************************)
C6_ExactlyTwoLinkDirectives ==
  (AllUnset /\ target_env # Str("android")) =>
    /\ Count("rustc-link-lib") <= 1
    /\ Count("rustc-link-search") <= 1
    /\ \A i \in 1..Len(stdout) :
         /\ stdout[i].key = "rustc-link-lib" => stdout[i] = LinkDirective
         /\ stdout[i].key = "rustc-link-search" =>
              (dst.some /\ stdout[i] = SearchDirective(dst.val))
    /\ stdout # <<>> => (dst.some /\ Len(built) = 1)
    /\ (dst.some /\ pc \notin {"built", "search_emitted"}) =>
         (Count("rustc-link-lib") = 1 /\ Count("rustc-link-search") = 1)

C6_Witness ==
  /\ AllUnset
  /\ target_env = Unset
  /\ pc = "done"
  /\ dst = Some(<<"tmp", "o">>)
  /\ Count("rustc-link-lib") = 1
  /\ Count("rustc-link-search") = 1

(***************************************************************************)
(* C7 as stated.  A failed external build aborts the run without a retry,  *)
(* a directive or a generation; a failed generation aborts it without a    *)
(* declaration file; and an aborted run leaves no emitted directive and no *)
(* written file behind.                                                    *)
(***************************************************************************)
C7_AbortLeavesNothing ==
  pc = "aborted" =>
    /\ stdout = <<>>
    /\ outFile = None
    /\ Len(built) = 1

(***************************************************************************)
(* C7 as amended.  A failed external build aborts the run without a retry, *)
(* a directive or a generation; a failed generation aborts it without a    *)
(* declaration file, the two link directives printed before it staying     *)
(* printed; an aborted run takes no further step, and a run is complete    *)
(* only with the archive built, both directives printed and the            *)
(* declarations written.                                                   *)
(***************************************************************************)
C7_AbortState ==
  /\ pc = "aborted" =>
       /\ Len(built) = 1
       /\ outFile = None
       /\ dst = None => (stdout = <<>> /\ bindings = None)
       /\ (dst.some /\ bindings = None) =>
            stdout = <<SearchDirective(dst.val), LinkDirective>>
  /\ pc = "done" =>
       /\ Len(built) = 1 /\ dst.some
       /\ Count("rustc-link-lib") = 1 /\ Count("rustc-link-search") = 1
       /\ bindings.some /\ outFile.some /\ outFile.val.content = bindings.val

C7_FatalErrorsAbort ==
  /\ []C7_AbortState
  /\ [][pc # "aborted"]_vars

C7_Witness ==
  /\ pc = "aborted"
  /\ dst.some
  /\ bindings = None
  /\ Len(stdout) = 2

(***************************************************************************)
(* C8.  No run completes with the static archive absent from the search    *)
(* path it emitted, build/libversion under the build output directory.     *)
(***************************************************************************)
C8_ArchiveInSearchPath ==
  pc = "done" =>
    \E i \in 1..Len(stdout) :
      /\ stdout[i].key = "rustc-link-search"
      /\ archiveAt = Some(stdout[i].val)

C10_EveryRootHasStructure ==
  (Returned /\ ndk_root.some) => HasNdkStructure(ndk_root.val)

(***************************************************************************)
(* C10 as amended.  Every root the Locator infers from the compiler path   *)
(* is a directory with a toolchains subdirectory that has an llvm child; a *)
(* root taken from a variable is an existing directory; the Locator        *)
(* changes nothing in the environment or the filesystem.                   *)
(***************************************************************************)
C10_RootState ==
  (Returned /\ ndk_root.some) =>
    /\ Resolve(ndk_root.val) \in fsDirs
    /\ cc_path.some => HasNdkStructure(ndk_root.val)

C10_InferredRootHasStructure ==
  /\ []C10_RootState
  /\ [][(pc \in InLocator) => UNCHANGED <<world, cmake_cfg, builder, generator>>]_vars

C10_Witness ==
  /\ pc = "located"
  /\ cc_path = Some(<<"ndk", "toolchains", "llvm", "bin", "clang">>)
  /\ compiler = Some(ToRaw(LinkPath))
  /\ ndk_root = Some(<<Sep, "ndk">>)

====
